---- MODULE Spec2Model ----
(***************************************************************************)
(* A model of brrtfetch (src/go/main.go): the sequential GIF compositor,   *)
(* the buffer pool, the render workers, the result collector, the playback *)
(* loop and the signal handler.                                            *)
(*                                                                         *)
(* Pointers to pooled canvases (image.RGBA) are canvas ids 1..2W; the      *)
(* pixel bytes behind a pointer are Pix[id].  A pixel is <<r, g, b, a>>.   *)
(* A string is a sequence of tokens (cells), a frame is a sequence of      *)
(* lines.  Go channels are FIFO sequences with a closed flag.              *)
(***************************************************************************)
EXTENDS Integers, Sequences, FiniteSets, TLC

\* ---------------------------------------------------------------- bounds
\* g.Config.Width, g.Config.Height: the logical screen of the decoded GIF
CanvasW == 4
CanvasH == 4
\* len(g.Image) ranges over 1..MaxFrames, runtime.NumCPU() over 1..MaxWorkers
MaxFrames == 3
MaxWorkers == 2
\* The largest canvas side and the largest target side that are sampled
MaxSrc == 30
MaxDst == 22
\* The largest target width and height, overlay length and offset rendered
MaxSide == 3
MaxInfo == 3
MaxOffset == 2

\* ------------------------------------------------------------ pixel data
Pixels == (0 .. CanvasW - 1) \X (0 .. CanvasH - 1)

Transparent == <<0, 0, 0, 0>>
Red == <<255, 0, 0, 255>>
Green == <<0, 255, 0, 255>>
Blue == <<0, 0, 255, 255>>

\* image.Rect(x0, y0, x1, y1): Min inclusive, Max exclusive
Rect(x0, y0, x1, y1) == [x0 |-> x0, y0 |-> y0, x1 |-> x1, y1 |-> y1]

InRect(p, r) == /\ r.x0 <= p[1] /\ p[1] < r.x1
                /\ r.y0 <= p[2] /\ p[2] < r.y1

CanvasBounds == Rect(0, 0, CanvasW, CanvasH)

\* image.NewRGBA: a zeroed pixel buffer
NewRGBA == [p \in Pixels |-> Transparent]

\* draw.Draw(dst, r, image.NewUniform(c), image.Point{}, draw.Src)
DrawUniformSrc(dst, r, c) ==
    [p \in Pixels |-> IF InRect(p, r) THEN c ELSE dst[p]]

\* draw.Draw(dst, dst.Bounds(), src, image.Point{}, draw.Src), same-size src
DrawImageSrc(dst, src) == [p \in Pixels |-> src[p]]

\* The Porter-Duff over operator of image/draw on one alpha-premultiplied
\* pixel: the source plus the destination scaled by the source's remaining
\* transparency.  A frame decoded by gif.DecodeAll has alpha 255 or, for
\* the transparent index, the zero colour, where this is exactly the source
\* or exactly the destination.
OverChannel(d, s, a) == s + (d * (255 - a)) \div 255

Over(d, s) ==
    <<OverChannel(d[1], s[1], s[4]), OverChannel(d[2], s[2], s[4]),
      OverChannel(d[3], s[3], s[4]), OverChannel(d[4], s[4], s[4])>>

\* Mutant of DrawFrameOver: the frame drawn over the whole canvas instead
\* of its own rectangle
DrawFrameUnclipped(dst, frame) == [p \in Pixels |-> Over(dst[p], frame.at[p])]

\* draw.Draw(dst, frame.Bounds(), frame, frame.Bounds().Min, draw.Over);
\* draw clips the rectangle to dst's bounds.
DrawFrameOver(dst, frame) ==
    [p \in Pixels |->
        IF InRect(p, frame.bounds) /\ InRect(p, CanvasBounds)
        THEN Over(dst[p], frame.at[p]) ELSE dst[p]]

\* copy(dst.Pix, src.Pix) for two canvases of the same size
CopyPix(src) == [p \in Pixels |-> src[p]]

\* gif.DisposalNone, gif.DisposalBackground, gif.DisposalPrevious
DisposalNone == 1
DisposalBackground == 2
DisposalPrevious == 3

\* ------------------------------------------------------- the glyph mapper
\* pixelToASCII.  The multiplier is kept in tenths (1.2 is 12) and the
\* luminance in ten-thousandths, so lum > t*multiplier is compared exactly.
Lum(r, g, b) == 2126 * r + 7152 * g + 722 * b

pixelToASCII(r, g, b, mult10) ==
    LET lum == Lum(r, g, b)
        over(t) == lum > t * mult10 * 1000
    IN  IF over(1000) THEN " "
        ELSE IF over(250) THEN "."
        ELSE IF over(180) THEN "dotted-circle"
        ELSE IF over(140) THEN "*"
        ELSE IF over(120) THEN "black-circle"
        ELSE IF over(60) THEN "circled-white-bullet"
        ELSE IF over(30) THEN "circled-bullet"
        ELSE "large-black-circle"

\* The pieces a line is built from.  rgb is <<>> when no colour escape is
\* written; esc names the escape sequences around the glyph.
ClearCell == [esc |-> "reset-before", glyph |-> " ", rgb |-> <<>>]
ColourCell(r, g, b, ch) == [esc |-> "fg-reset", glyph |-> ch, rgb |-> <<r, g, b>>]
Text(s) == [esc |-> "", glyph |-> s, rgb |-> <<>>]
Separator == Text("   ")

\* ---------------------------------------------------- float64 arithmetic
\* A positive float64 is a significand of MantissaBits bits, most
\* significant first, and an exponent: its value is 0.b1 b2 ... times
\* 2^exp.  Exponents stay far inside the float64 range here.
MantissaBits == 53

RECURSIVE IntBits(_)
IntBits(n) == IF n = 0 THEN <<>> ELSE Append(IntBits(n \div 2), n % 2)

RECURSIVE BitsToInt(_)
BitsToInt(bits) ==
    IF bits = <<>> THEN 0
    ELSE 2 * BitsToInt(SubSeq(bits, 1, Len(bits) - 1)) + bits[Len(bits)]

\* The 13 bits of a digit d < 8192.  Bits are handled 13 at a time so that
\* no intermediate product leaves 32 bits.
Bits13(d) == [k \in 1 .. 13 |-> (d \div (2 ^ (13 - k))) % 2]

RECURSIVE Flatten(_)
Flatten(digits) ==
    IF digits = <<>> THEN <<>> ELSE Bits13(Head(digits)) \o Flatten(Tail(digits))

RECURSIVE StripZeros(_)
StripZeros(bits) ==
    IF bits # <<>> /\ Head(bits) = 0 THEN StripZeros(Tail(bits)) ELSE bits

\* bits + 1 for bits that are not all ones
Increment(bits) ==
    LET last == CHOOSE p \in 1 .. Len(bits) :
                    bits[p] = 0 /\ \A k \in p + 1 .. Len(bits) : bits[k] = 1
    IN  [k \in 1 .. Len(bits) |->
            IF k < last THEN bits[k] ELSE IF k = last THEN 1 ELSE 0]

\* Round to nearest, ties to even: bits are the exact result's leading
\* bits, sticky tells whether non-zero bits follow them
RoundToEven(bits, exp, sticky) ==
    IF Len(bits) <= MantissaBits
    THEN [bits |-> bits \o [k \in 1 .. MantissaBits - Len(bits) |-> 0], exp |-> exp]
    ELSE LET kept == SubSeq(bits, 1, MantissaBits)
             half == bits[MantissaBits + 1]
             rest == sticky \/ \E k \in MantissaBits + 2 .. Len(bits) : bits[k] = 1
             up == half = 1 /\ (rest \/ kept[MantissaBits] = 1)
         IN  IF ~up THEN [bits |-> kept, exp |-> exp]
             ELSE IF \A k \in 1 .. MantissaBits : kept[k] = 1
                  THEN [bits |-> <<1>> \o [k \in 1 .. MantissaBits - 1 |-> 0],
                        exp |-> exp + 1]
                  ELSE [bits |-> Increment(kept), exp |-> exp]

\* The first n base-8192 digits of r / b after the point, for 0 <= r < b,
\* followed by the remainder left
RECURSIVE Quotient(_, _, _)
Quotient(r, b, n) ==
    IF n = 0 THEN <<r>>
    ELSE <<(r * 8192) \div b>> \o Quotient((r * 8192) % b, b, n - 1)

\* float64(a) / float64(b) for integers a, b >= 1
FDiv(a, b) ==
    LET digits == Quotient(a % b, b, 6)
        bits == StripZeros(IntBits(a \div b) \o Flatten(SubSeq(digits, 1, 6)))
    IN  RoundToEven(bits, Len(bits) - 78, digits[7] # 0)

\* The digits of x times the number written by digits (least significant
\* first), the last one being the carry out
RECURSIVE Times(_, _, _)
Times(digits, x, carry) ==
    IF digits = <<>> THEN <<carry>>
    ELSE <<(x * Head(digits) + carry) % 8192>>
             \o Times(Tail(digits), x, (x * Head(digits) + carry) \div 8192)

Reverse(s) == [k \in 1 .. Len(s) |-> s[Len(s) + 1 - k]]

\* float64(x) * f for an integer x >= 0
FMulInt(x, f) ==
    LET padded == <<0, 0, 0, 0, 0, 0, 0, 0, 0, 0, 0, 0>> \o f.bits
        digits == [n \in 1 .. 5 |-> BitsToInt(SubSeq(padded, 13 * (5 - n) + 1, 13 * (6 - n)))]
        product == StripZeros(Flatten(Reverse(Times(digits, x, 0))))
    IN  IF product = <<>> THEN [bits |-> [k \in 1 .. MantissaBits |-> 0], exp |-> 0]
        ELSE RoundToEven(product, f.exp + Len(product) - MantissaBits, FALSE)

\* int(f): the fraction is dropped
Truncate(f) ==
    IF f.exp <= 0 THEN 0 ELSE BitsToInt(SubSeq(f.bits, 1, f.exp))

\* scaleX := float64(img.Bounds().Dx()) / float64(width), lines 231-232
Scale(src, dst) == FDiv(src, dst)

\* Mutant of Sample: the cells are counted from 1
SampleFromOne(x, scale) == Truncate(FMulInt(x + 1, scale))

\* int(float64(x) * scaleX), lines 238-239
Sample(x, scale) == Truncate(FMulInt(x, scale))

\* The sampled coordinate for every source size, target size and index of
\* the model, computed once
Sampled ==
    [src \in 1 .. MaxSrc |-> [dst \in 1 .. MaxDst |->
        LET scale == Scale(src, dst)
        IN  [x \in 0 .. dst - 1 |-> Sample(x, scale)]]]

SampleCoord(x, src, dst) == Sampled[src][dst][x]

RenderCell(img, px, py, colorOutput, mult10) ==
    LET c == img[<<px, py>>]
    IN  IF c[4] = 0 THEN ClearCell
        ELSE LET ch == pixelToASCII(c[1], c[2], c[3], mult10)
             IN  IF colorOutput THEN ColourCell(c[1], c[2], c[3], ch)
                 ELSE Text(ch)

\* Mutant of renderFrame: the overlay starts at row 0 whatever the offset
renderFrameNoOffset(img, width, height, sysInfo, colorOutput, mult10, offset) ==
    LET totalHeight == IF Len(sysInfo) + offset > height
                       THEN Len(sysInfo) + offset ELSE height
        ImageRow(y) ==
            IF y < height
            THEN [x \in 1 .. width |->
                    RenderCell(img, SampleCoord(x - 1, CanvasW, width),
                               SampleCoord(y, CanvasH, height),
                               colorOutput, mult10)]
            ELSE [x \in 1 .. width |-> Text(" ")]
        Overlay(y) ==
            IF y < Len(sysInfo) THEN <<Separator, Text(sysInfo[y + 1])>> ELSE <<>>
    IN  [k \in 1 .. totalHeight |-> ImageRow(k - 1) \o Overlay(k - 1)]

\* renderFrame: rows are 0-based in the code, lines[y + 1] is row y.
renderFrame(img, width, height, sysInfo, colorOutput, mult10, offset) ==
    LET totalHeight == IF Len(sysInfo) + offset > height
                       THEN Len(sysInfo) + offset ELSE height
        ImageRow(y) ==
            IF y < height
            THEN [x \in 1 .. width |->
                    RenderCell(img, SampleCoord(x - 1, CanvasW, width),
                               SampleCoord(y, CanvasH, height),
                               colorOutput, mult10)]
            ELSE [x \in 1 .. width |-> Text(" ")]
        Overlay(y) ==
            LET sysIndex == y - offset
            IN  IF sysIndex >= 0 /\ sysIndex < Len(sysInfo)
                THEN <<Separator, Text(sysInfo[sysIndex + 1])>>
                ELSE <<>>
    IN  [k \in 1 .. totalHeight |-> ImageRow(k - 1) \o Overlay(k - 1)]

\* ------------------------------------------------------------ the inputs
\* Decoded frames: bounds inside the logical screen (gif.DecodeAll rejects
\* others), pixels opaque or the transparent index, a disposal byte.
FullRed == [bounds |-> CanvasBounds, at |-> [p \in Pixels |-> Red]]
TopLeftBlue == [bounds |-> Rect(0, 0, 2, 2), at |-> [p \in Pixels |-> Blue]]
MidHoled ==
    [bounds |-> Rect(1, 1, 3, 3),
     at |-> [p \in Pixels |-> IF (p[1] + p[2]) % 2 = 0 THEN Green ELSE Transparent]]

Shapes == <<FullRed, TopLeftBlue, MidHoled>>

\* 0 is "no disposal specified"; 1..3 are the gif.Disposal* constants
Disposals == {0, DisposalNone, DisposalBackground, DisposalPrevious}

Frame(shape, d) == [bounds |-> shape.bounds, at |-> shape.at, disposal |-> d]

\* The animations of n frames whose shapes follow each other cyclically from
\* shape r on, with every choice of disposal bytes
ShapeAt(j, r) == Shapes[((j - 1 + r) % Len(Shapes)) + 1]

Animations(n) ==
    {[j \in 1 .. n |-> Frame(ShapeAt(j, r), d[j])] :
        r \in 0 .. Len(Shapes) - 1, d \in [1 .. n -> Disposals]}

\* A sample of animations whose frames are pairwise different pictures:
\* frame j takes shape j (cyclically) and the disposal bytes start at s
SampleAnimation(n, s) ==
    [j \in 1 .. n |-> Frame(ShapeAt(j, 0), (j + s) % 4)]

SampleAnimations == {SampleAnimation(n, s) : n \in 1 .. MaxFrames, s \in 0 .. 1}

\* cfg, sysInfo, multiplier and offset as main hands them to the workers
Config(w, h, color, info, mult10, off) ==
    [Width |-> w, Height |-> h, Color |-> color, sysInfo |-> info,
     multiplier |-> mult10, offset |-> off]

SampleConfigs == {Config(2, 2, TRUE, <<"info">>, 12, 0)}

Render(img, c) ==
    renderFrame(img, c.Width, c.Height, c.sysInfo, c.Color, c.multiplier, c.offset)

\* ------------------------------------------------- the overlay command
\* Text handled by runCommand and getCommandOutputLines is a sequence of
\* characters; "Error running command: " stands for those 23 characters.
Space == {" ", "\t", "\n", "\r"}

\* Number of leading characters of s that are not white space
RECURSIVE WordLen(_)
WordLen(s) ==
    IF s = <<>> \/ Head(s) \in Space THEN 0 ELSE 1 + WordLen(Tail(s))

\* strings.Fields
RECURSIVE Fields(_)
Fields(s) ==
    IF s = <<>> THEN <<>>
    ELSE IF Head(s) \in Space THEN Fields(Tail(s))
    ELSE <<SubSeq(s, 1, WordLen(s))>> \o Fields(SubSeq(s, WordLen(s) + 1, Len(s)))

\* strings.Split(s, "\n"): one more piece than there are newlines
RECURSIVE Split(_)
Split(s) ==
    IF s = <<>> THEN <<<<>>>>
    ELSE LET rest == Split(Tail(s))
         IN  IF Head(s) = "\n" THEN <<<<>>>> \o rest
             ELSE <<<<Head(s)>> \o Head(rest)>> \o Tail(rest)

\* strings.TrimRight(line, "\r\n")
RECURSIVE TrimRight(_)
TrimRight(line) ==
    IF line # <<>> /\ line[Len(line)] \in {"\r", "\n"}
    THEN TrimRight(SubSeq(line, 1, Len(line) - 1))
    ELSE line

\* What a pseudo-terminal makes of the bytes written to it: a newline comes
\* out as carriage return, newline
RECURSIVE Pty(_)
Pty(s) ==
    IF s = <<>> THEN <<>>
    ELSE (IF Head(s) = "\n" THEN <<"\r", "\n">> ELSE <<Head(s)>>) \o Pty(Tail(s))

\* What the overlay command does when it is started: it is on the PATH or
\* not; if it is, it writes out and err and exits with or without an error
Missing == [found |-> FALSE, failed |-> TRUE, out |-> <<>>, err |-> <<>>]
Behaves(failed, out, err) == [found |-> TRUE, failed |-> failed, out |-> out, err |-> err]

Fails(does) == ~does.found \/ does.failed

\* cmd.CombinedOutput() of the command itself (line 332): nothing when it
\* cannot be started
RunDirect(e) ==
    IF ~e.does.found THEN [out |-> <<>>, err |-> TRUE]
    ELSE [out |-> e.does.out \o e.does.err, err |-> e.does.failed]

\* ... of unbuffer running the command on a pseudo-terminal (line 327);
\* e.complaint is what unbuffer itself says when it cannot start the command
RunUnbuffer(e) ==
    IF ~e.does.found THEN [out |-> Pty(e.complaint), err |-> TRUE]
    ELSE [out |-> Pty(e.does.out \o e.does.err), err |-> e.does.failed]

\* ... of script -qefc "<commandLine> 2>/dev/null" /dev/null (line 321): the
\* shell sends the command's standard error, and its own complaint about a
\* command it cannot find, to /dev/null
RunScript(e) ==
    IF ~e.does.found THEN [out |-> <<>>, err |-> TRUE]
    ELSE [out |-> Pty(e.does.out), err |-> e.does.failed]

\* runCommand, on an operating system other than darwin
runCommand(commandLine, e) ==
    LET parts == Fields(commandLine)
    IN  IF Len(parts) = 0 THEN <<>>
        ELSE IF e.script THEN RunScript(e).out
        ELSE IF e.unbuffer THEN RunUnbuffer(e).out
        ELSE IF RunDirect(e).err
             THEN <<"Error running command: ">> \o parts[1] \o <<"\n">> \o RunDirect(e).out
        ELSE RunDirect(e).out

getCommandOutputLines(commandLine, e) ==
    LET lines == Split(runCommand(commandLine, e))
    IN  SelectSeq([k \in 1 .. Len(lines) |-> TrimRight(lines[k])],
                  LAMBDA line : line # <<>>)

\* The worlds main is started in: the arguments, the file they name, the
\* launchers on the PATH, the -info command line and what it does
Commands == {<<>>, <<"a">>, <<" ", "a", " ", "b">>}
Outputs == {<<>>, <<"x", "\n">>, <<"x", "\n", "\n", "y">>}
Complaints == {<<>>, <<"e", "\n">>}

Behaviours ==
    {Missing} \cup {Behaves(failed, out, err) :
                       failed \in BOOLEAN, out \in Outputs, err \in Complaints}

\* A file is unreadable, not a GIF, or a GIF of n frames
Unreadable == [opens |-> FALSE, decodes |-> FALSE, image |-> <<>>]
NotAGif == [opens |-> TRUE, decodes |-> FALSE, image |-> <<>>]
Gif(anim) == [opens |-> TRUE, decodes |-> TRUE, image |-> anim]

Files == {Unreadable, NotAGif} \cup {Gif(SampleAnimation(n, 0)) : n \in 1 .. MaxFrames}

Worlds ==
    [args : 0 .. 1, file : Files, script : BOOLEAN, unbuffer : BOOLEAN,
     complaint : Complaints, command : Commands, does : Behaviours]

\* -------------------------------------------------------------- the state
VARIABLES
    numWorkers,     \* runtime.NumCPU()
    frames,         \* g.Image with g.Disposal, frames[i + 1] is frame i
    cfg,            \* cfg, sysInfo, multiplier, offset
    pc,             \* position of main
    i,              \* the compositor's loop index
    fullFrame,      \* the composed canvas, Nil before the first frame
    snapshot,       \* the canvas saved for DisposalPrevious
    lastDisposal,
    lastBounds,
    frameCopy,      \* the pooled canvas main holds, 0 for none
    bufferPool,     \* channel of canvas ids, capacity 2 * numWorkers
    Pix,            \* the pixels of each pooled canvas
    jobs,           \* channel of RenderJob, capacity len(g.Image)
    jobsClosed,
    results,        \* channel of RenderResult, capacity len(g.Image)
    resultsClosed,
    wg,             \* the WaitGroup counter
    wpc,            \* position of each worker
    wjob,           \* the job a worker holds
    wlines,         \* the lines a worker rendered
    cpc,            \* position of the collector goroutine
    cres,           \* the result the collector holds
    prerendered,
    firstFrame,
    sigs,           \* number of signals buffered in sigs (capacity 1)
    hpc,            \* position of the signal goroutine
    exited,         \* os.Exit was called
    writer,         \* the bufio.Writer's pending output
    stdout,         \* the last chunk written to the terminal
    playIdx,        \* index of the playback loop's range
    hist,           \* history: per index the number of jobs sent, taken, published,
                    \* written and released; whether a result was stored after one
                    \* of a later frame; the canvas before each draw and the canvas
                    \* handed to each job
    env,            \* what the program finds outside itself: the file, the
                    \* launchers installed, what the overlay command does
    boot,           \* what main has done before line 117: terminal writes,
                    \* signal registration, the panic value
    probe           \* one cell of renderFrame's loops: sizes, indexes, px, py

vars == <<numWorkers, frames, cfg, pc, i, fullFrame, snapshot, lastDisposal,
          lastBounds, frameCopy, bufferPool, Pix, jobs, jobsClosed, results,
          resultsClosed, wg, wpc, wjob, wlines, cpc, cres, prerendered,
          firstFrame, sigs, hpc, exited, writer, stdout, playIdx, hist, env, boot,
          probe>>

inputVars == <<numWorkers, frames, cfg, env, boot, probe>>
composeVars == <<fullFrame, snapshot, lastDisposal, lastBounds>>
workerVars == <<wpc, wjob, wlines>>
collectVars == <<cpc, cres, prerendered>>
playVars == <<writer, playIdx>>
signalVars == <<sigs, hpc, exited>>

N == Len(frames)
Workers == 1 .. numWorkers
PoolCap == 2 * numWorkers
Canvases == 1 .. PoolCap
Indexes == 0 .. N - 1

Nil == <<>>
NoJob == [Index |-> -1, Image |-> 0, PoolKey |-> 0]
NoResult == [Index |-> -1, Lines |-> Nil]

\* What a terminal write carries: who wrote it and the lines written
Chunk(by, data) == [by |-> by, data |-> data]
Home == <<[esc |-> "home", glyph |-> "", rgb |-> <<>>]>>
ExitAltScreen == <<[esc |-> "exit-alt-screen", glyph |-> "", rgb |-> <<>>]>>
ShowCursor == <<[esc |-> "show-cursor", glyph |-> "", rgb |-> <<>>]>>
ResetColour == <<[esc |-> "reset", glyph |-> "", rgb |-> <<>>]>>
WithNewline(line) == line \o <<Text("\n")>>

\* A slice header read while another goroutine stores it, with nothing
\* ordering the two: neither store, or all of it, or part of it.
Torn == <<<<[esc |-> "torn", glyph |-> "", rgb |-> <<>>]>>>>

EnterAltScreen == <<[esc |-> "enter-alt-screen", glyph |-> "", rgb |-> <<>>]>>
HideCursor == <<[esc |-> "hide-cursor", glyph |-> "", rgb |-> <<>>]>>

\* boot before main has done anything, and once line 115 is passed
NotBooted == [written |-> <<>>, notified |-> FALSE, panic |-> ""]
Booted == [written |-> <<EnterAltScreen, HideCursor>>, notified |-> TRUE, panic |-> ""]

\* A world in which the file is anim and the overlay command is found
WorldOf(anim) ==
    [args |-> 1, file |-> Gif(anim), script |-> FALSE, unbuffer |-> FALSE,
     complaint |-> <<>>, command |-> <<"a">>, does |-> Behaves(FALSE, <<>>, <<>>)]

NoProbe == [done |-> TRUE]

\* The state once the pool is filled and the workers are started (line 133)
Started(W, anim, c) ==
    /\ env = WorldOf(anim)
    /\ boot = Booted
    /\ numWorkers = W
    /\ frames = anim
    /\ cfg = c
    /\ pc = "dispose"
    /\ i = 0
    /\ fullFrame = Nil
    /\ snapshot = Nil
    /\ lastDisposal = DisposalNone
    /\ lastBounds = Rect(0, 0, 0, 0)
    /\ frameCopy = 0
    /\ bufferPool = [k \in 1 .. 2 * W |-> k]
    /\ Pix = [k \in 1 .. 2 * W |-> NewRGBA]
    /\ jobs = <<>>
    /\ jobsClosed = FALSE
    /\ results = <<>>
    /\ resultsClosed = FALSE
    /\ wg = W
    /\ wpc = [w \in 1 .. W |-> "recv"]
    /\ wjob = [w \in 1 .. W |-> NoJob]
    /\ wlines = [w \in 1 .. W |-> Nil]
    /\ cpc = "off"
    /\ cres = NoResult
    /\ prerendered = [k \in 0 .. Len(anim) - 1 |-> Nil]
    /\ firstFrame = Nil
    /\ sigs = 0
    /\ hpc = "off"
    /\ exited = FALSE
    /\ writer = <<>>
    /\ stdout = Chunk("main", <<>>)
    /\ playIdx = 0
    /\ hist = [sent |-> [k \in 0 .. Len(anim) - 1 |-> 0],
               taken |-> [k \in 0 .. Len(anim) - 1 |-> 0],
               published |-> [k \in 0 .. Len(anim) - 1 |-> 0],
               written |-> [k \in 0 .. Len(anim) - 1 |-> 0],
               released |-> [k \in 0 .. Len(anim) - 1 |-> 0],
               reordered |-> FALSE,
               before |-> <<>>,
               handed |-> <<>>]

InitWith(W, anim, c) == Started(W, anim, c) /\ probe = NoProbe

Init ==
    \E W \in 1 .. MaxWorkers, anim \in SampleAnimations, c \in SampleConfigs :
        InitWith(W, anim, c)

\* One worker, one frame, and every target size, overlay and offset up to
\* the bounds
InfoLines(n) == [k \in 1 .. n |-> ToString(k)]

RenderConfigs ==
    {Config(w, h, color, InfoLines(n), 12, off) :
        w \in 0 .. MaxSide, h \in 0 .. MaxSide, color \in BOOLEAN,
        n \in 0 .. MaxInfo, off \in 0 .. MaxOffset}

InitRender ==
    \E c \in RenderConfigs, shape \in {FullRed, MidHoled} :
        InitWith(1, <<Frame(shape, DisposalNone)>>, c)

\* One cell of renderFrame's loops (lines 235-241): a canvas of W x H, a
\* target of w x h, the loop indexes x and y.  Every x-axis up to the
\* bounds is taken, with a sample of y-axes.
Rows ==
    {<<1, 1, 0>>, <<MaxSrc, 1, 0>>, <<1, MaxDst, MaxDst - 1>>,
     <<MaxSrc, MaxDst, MaxDst - 1>>, <<MaxSrc, MaxDst, MaxDst \div 2>>,
     <<MaxSrc, 0, 0>>}

Cell(W, H, w, h, x, y) ==
    [W |-> W, H |-> H, w |-> w, h |-> h, x |-> x, y |-> y,
     px |-> -1, py |-> -1, offsetPix |-> -1, done |-> FALSE]

InitSample ==
    \E W \in 1 .. MaxSrc, w \in 1 .. MaxDst, x \in 0 .. MaxDst - 1, row \in Rows :
        /\ x < w
        /\ probe = Cell(W, row[1], w, row[2], x, row[3])
        /\ Started(1, SampleAnimation(1, 0), Config(2, 2, TRUE, <<>>, 12, 0))

\* Lines 235-240: inside both loops the source coordinate and the offset of
\* the pixel in img.Pix are computed; img.Stride is 4 * W
SampleCell ==
    /\ ~probe.done
    /\ probe.y < probe.h
    /\ probe.x < probe.w
    /\ LET px == SampleCoord(probe.x, probe.W, probe.w)
           py == SampleCoord(probe.y, probe.H, probe.h)
       IN  probe' = [probe EXCEPT !.px = px, !.py = py,
                                  !.offsetPix = py * (4 * probe.W) + px * 4,
                                  !.done = TRUE]
    /\ UNCHANGED <<numWorkers, frames, cfg, env, boot, pc, i, composeVars, frameCopy,
                   bufferPool, Pix, jobs, jobsClosed, results, resultsClosed, wg,
                   workerVars, collectVars, firstFrame, signalVars, playVars,
                   stdout, hist>>

SampleSpec == InitSample /\ [][SampleCell]_vars

\* ------------------------------------------------------ main: start-up
\* The state when main begins with its flags parsed (line 66): no channel
\* is made, no goroutine started, nothing written
InitStartup ==
    \E W \in 1 .. MaxWorkers, e \in Worlds :
        /\ env = e
        /\ boot = NotBooted
        /\ probe = NoProbe
        /\ numWorkers = W
        /\ frames = <<>>
        /\ cfg = Config(2, 2, TRUE, <<>>, 12, 0)
        /\ pc = "args"
        /\ i = 0
        /\ fullFrame = Nil
        /\ snapshot = Nil
        /\ lastDisposal = DisposalNone
        /\ lastBounds = Rect(0, 0, 0, 0)
        /\ frameCopy = 0
        /\ bufferPool = <<>>
        /\ Pix = <<>>
        /\ jobs = <<>>
        /\ jobsClosed = FALSE
        /\ results = <<>>
        /\ resultsClosed = FALSE
        /\ wg = 0
        /\ wpc = <<>>
        /\ wjob = <<>>
        /\ wlines = <<>>
        /\ cpc = "off"
        /\ cres = NoResult
        /\ prerendered = <<>>
        /\ firstFrame = Nil
        /\ sigs = 0
        /\ hpc = "off"
        /\ exited = FALSE
        /\ writer = <<>>
        /\ stdout = Chunk("main", <<>>)
        /\ playIdx = 0
        /\ hist = [sent |-> <<>>, taken |-> <<>>, published |-> <<>>,
                   written |-> <<>>, released |-> <<>>, reordered |-> FALSE,
                   before |-> <<>>, handed |-> <<>>]

Usage == <<Text("Usage: brrtfetch [options] /path/to/file.gif")>>

\* panic(err): the goroutine unwinds and the process ends with the
\* diagnostic on standard error
Panic(cause) ==
    /\ pc' = "panicked"
    /\ boot' = [boot EXCEPT !.panic = cause]

\* Lines 68-72
CheckArgs ==
    /\ pc = "args"
    /\ IF env.args < 1
       THEN pc' = "returned" /\ stdout' = Chunk("main", <<Usage>>)
       ELSE pc' = "open" /\ UNCHANGED stdout
    /\ UNCHANGED <<numWorkers, frames, cfg, i, fullFrame, snapshot, lastDisposal,
                   lastBounds, frameCopy, bufferPool, Pix, jobs, jobsClosed,
                   results, resultsClosed, wg, wpc, wjob, wlines, cpc, cres,
                   prerendered, firstFrame, sigs, hpc, exited, writer, playIdx,
                   hist, env, boot, probe>>

\* Lines 74-79: os.Open
OpenFile ==
    /\ pc = "open"
    /\ IF env.file.opens THEN pc' = "decode" /\ UNCHANGED boot ELSE Panic("open")
    /\ UNCHANGED <<numWorkers, frames, cfg, i, fullFrame, snapshot, lastDisposal,
                   lastBounds, frameCopy, bufferPool, Pix, jobs, jobsClosed,
                   results, resultsClosed, wg, wpc, wjob, wlines, cpc, cres,
                   prerendered, firstFrame, sigs, hpc, exited, writer, stdout,
                   playIdx, hist, env, probe>>

\* Mutant of DecodeAll: the error of gif.DecodeAll is not looked at
DecodeAllUnchecked ==
    /\ pc = "decode"
    /\ frames' = env.file.image
    /\ pc' = "info"
    /\ UNCHANGED <<numWorkers, cfg, i, fullFrame, snapshot, lastDisposal,
                   lastBounds, frameCopy, bufferPool, Pix, jobs, jobsClosed,
                   results, resultsClosed, wg, wpc, wjob, wlines, cpc, cres,
                   prerendered, firstFrame, sigs, hpc, exited, writer, stdout,
                   playIdx, hist, env, boot, probe>>

\* Lines 81-85: gif.DecodeAll
DecodeAll ==
    /\ pc = "decode"
    /\ IF env.file.decodes
       THEN frames' = env.file.image /\ pc' = "info" /\ UNCHANGED boot
       ELSE Panic("decode") /\ UNCHANGED frames
    /\ UNCHANGED <<numWorkers, cfg, i, fullFrame, snapshot, lastDisposal,
                   lastBounds, frameCopy, bufferPool, Pix, jobs, jobsClosed,
                   results, resultsClosed, wg, wpc, wjob, wlines, cpc, cres,
                   prerendered, firstFrame, sigs, hpc, exited, writer, stdout,
                   playIdx, hist, env, probe>>

\* Lines 88-96: the overlay lines and cfg
GetInfo ==
    /\ pc = "info"
    /\ cfg' = [cfg EXCEPT !.sysInfo = getCommandOutputLines(env.command, env)]
    /\ pc' = "altScreen"
    /\ UNCHANGED <<numWorkers, frames, i, fullFrame, snapshot, lastDisposal,
                   lastBounds, frameCopy, bufferPool, Pix, jobs, jobsClosed,
                   results, resultsClosed, wg, wpc, wjob, wlines, cpc, cres,
                   prerendered, firstFrame, sigs, hpc, exited, writer, stdout,
                   playIdx, hist, env, boot, probe>>

\* Line 99
EnterAlt ==
    /\ pc = "altScreen"
    /\ stdout' = Chunk("main", <<EnterAltScreen>>)
    /\ boot' = [boot EXCEPT !.written = Append(@, EnterAltScreen)]
    /\ pc' = "hideCursor"
    /\ UNCHANGED <<numWorkers, frames, cfg, i, fullFrame, snapshot, lastDisposal,
                   lastBounds, frameCopy, bufferPool, Pix, jobs, jobsClosed,
                   results, resultsClosed, wg, wpc, wjob, wlines, cpc, cres,
                   prerendered, firstFrame, sigs, hpc, exited, writer, playIdx,
                   hist, env, probe>>

\* Lines 105-111: the writer is made, the hide-cursor sequence written and
\* flushed
HideTheCursor ==
    /\ pc = "hideCursor"
    /\ stdout' = Chunk("main", <<HideCursor>>)
    /\ boot' = [boot EXCEPT !.written = Append(@, HideCursor)]
    /\ pc' = "notify"
    /\ UNCHANGED <<numWorkers, frames, cfg, i, fullFrame, snapshot, lastDisposal,
                   lastBounds, frameCopy, bufferPool, Pix, jobs, jobsClosed,
                   results, resultsClosed, wg, wpc, wjob, wlines, cpc, cres,
                   prerendered, firstFrame, sigs, hpc, exited, writer, playIdx,
                   hist, env, probe>>

\* Lines 114-115: signal.Notify
Notify ==
    /\ pc = "notify"
    /\ boot' = [boot EXCEPT !.notified = TRUE]
    /\ pc' = "pool"
    /\ UNCHANGED <<numWorkers, frames, cfg, i, fullFrame, snapshot, lastDisposal,
                   lastBounds, frameCopy, bufferPool, Pix, jobs, jobsClosed,
                   results, resultsClosed, wg, wpc, wjob, wlines, cpc, cres,
                   prerendered, firstFrame, sigs, hpc, exited, writer, stdout,
                   playIdx, hist, env, probe>>

\* Lines 117-127: the channels are made and the pool is filled
FillPool ==
    /\ pc = "pool"
    /\ bufferPool' = [k \in 1 .. PoolCap |-> k]
    /\ Pix' = [k \in 1 .. PoolCap |-> NewRGBA]
    /\ pc' = "workers"
    /\ UNCHANGED <<numWorkers, frames, cfg, i, fullFrame, snapshot, lastDisposal,
                   lastBounds, frameCopy, jobs, jobsClosed, results,
                   resultsClosed, wg, wpc, wjob, wlines, cpc, cres, prerendered,
                   firstFrame, sigs, hpc, exited, writer, stdout, playIdx, hist,
                   env, boot, probe>>

\* Lines 130-133: the workers are started; the histories and the result
\* array get their indexes
StartWorkers ==
    /\ pc = "workers"
    /\ wg' = numWorkers
    /\ wpc' = [w \in Workers |-> "recv"]
    /\ wjob' = [w \in Workers |-> NoJob]
    /\ wlines' = [w \in Workers |-> Nil]
    /\ prerendered' = [k \in Indexes |-> Nil]
    /\ hist' = [hist EXCEPT !.sent = [k \in Indexes |-> 0],
                            !.taken = [k \in Indexes |-> 0],
                            !.published = [k \in Indexes |-> 0],
                            !.written = [k \in Indexes |-> 0],
                            !.released = [k \in Indexes |-> 0]]
    /\ pc' = "dispose"
    /\ UNCHANGED <<numWorkers, frames, cfg, i, fullFrame, snapshot, lastDisposal,
                   lastBounds, frameCopy, bufferPool, Pix, jobs, jobsClosed,
                   results, resultsClosed, cpc, cres, firstFrame, sigs, hpc,
                   exited, writer, stdout, playIdx, env, boot, probe>>

Startup ==
    \/ CheckArgs \/ OpenFile \/ DecodeAll \/ GetInfo \/ EnterAlt \/ HideTheCursor
    \/ Notify \/ FillPool \/ StartWorkers

\* main from its first line to the start of the compositor
StartupSpec == InitStartup /\ [][Startup]_vars

\* Mutant of ApplyDisposal: a background disposal that clears the whole
\* canvas instead of the rectangle of the frame before
ApplyDisposalClearAll(canvas, snap, disposal, bounds) ==
    IF disposal = DisposalPrevious THEN DrawImageSrc(canvas, snap)
    ELSE IF disposal # DisposalNone
         THEN DrawUniformSrc(canvas, CanvasBounds, Transparent)
    ELSE canvas

\* ------------------------------------------------- main: the compositor
\* Lines 142-152: the first frame allocates the canvases and clears the
\* canvas; a later frame is preceded by the disposal of the frame before it.
ApplyDisposal(canvas, snap, disposal, bounds) ==
    IF disposal = DisposalPrevious THEN DrawImageSrc(canvas, snap)
    ELSE IF disposal # DisposalNone THEN DrawUniformSrc(canvas, bounds, Transparent)
    ELSE canvas

Dispose ==
    /\ ~exited
    /\ pc = "dispose"
    /\ IF fullFrame = Nil
       THEN /\ fullFrame' = DrawUniformSrc(NewRGBA, CanvasBounds, Transparent)
            /\ snapshot' = NewRGBA
       ELSE /\ fullFrame' = ApplyDisposal(fullFrame, snapshot, lastDisposal, lastBounds)
            /\ snapshot' = snapshot
    /\ pc' = "snapshot"
    /\ UNCHANGED <<inputVars, i, lastDisposal, lastBounds, frameCopy, bufferPool,
                   Pix, jobs, jobsClosed, results, resultsClosed, wg, workerVars,
                   collectVars, firstFrame, signalVars, playVars, stdout, hist>>

\* Mutant of TakeSnapshot: the snapshot is taken for a background disposal
\* instead of a previous disposal
TakeSnapshotWrongTag(canvas, snap, disposal) ==
    IF disposal = DisposalBackground THEN CopyPix(canvas) ELSE snap

\* Lines 154-156
TakeSnapshot(canvas, snap, disposal) ==
    IF disposal = DisposalPrevious THEN CopyPix(canvas) ELSE snap

Snapshot ==
    /\ ~exited
    /\ pc = "snapshot"
    /\ snapshot' = TakeSnapshot(fullFrame, snapshot, frames[i + 1].disposal)
    /\ pc' = "draw"
    /\ UNCHANGED <<inputVars, i, fullFrame, lastDisposal, lastBounds, frameCopy,
                   bufferPool, Pix, jobs, jobsClosed, results, resultsClosed, wg,
                   workerVars, collectVars, firstFrame, signalVars, playVars,
                   stdout, hist>>

\* Lines 158-160
Draw ==
    /\ ~exited
    /\ pc = "draw"
    /\ fullFrame' = DrawFrameOver(fullFrame, frames[i + 1])
    /\ lastDisposal' = frames[i + 1].disposal
    /\ lastBounds' = frames[i + 1].bounds
    /\ hist' = [hist EXCEPT !.before = Append(@, fullFrame)]
    /\ pc' = "acquire"
    /\ UNCHANGED <<inputVars, i, snapshot, frameCopy, bufferPool, Pix, jobs,
                   jobsClosed, results, resultsClosed, wg, workerVars, collectVars,
                   firstFrame, signalVars, playVars, stdout>>

\* Mutant of Acquire: a receive with a default branch that reuses the first
\* pooled canvas when the pool is empty instead of blocking
AcquireNoBlock ==
    /\ ~exited
    /\ pc = "acquire"
    /\ frameCopy' = IF Len(bufferPool) > 0 THEN Head(bufferPool) ELSE 1
    /\ bufferPool' = IF Len(bufferPool) > 0 THEN Tail(bufferPool) ELSE bufferPool
    /\ pc' = "dispatch"
    /\ UNCHANGED <<inputVars, i, composeVars, Pix, jobs, jobsClosed, results,
                   resultsClosed, wg, workerVars, collectVars, firstFrame,
                   signalVars, playVars, stdout, hist>>

\* Line 162: frameCopy := <-bufferPool
Acquire ==
    /\ ~exited
    /\ pc = "acquire"
    /\ Len(bufferPool) > 0
    /\ frameCopy' = Head(bufferPool)
    /\ bufferPool' = Tail(bufferPool)
    /\ pc' = "dispatch"
    /\ UNCHANGED <<inputVars, i, composeVars, Pix, jobs, jobsClosed, results,
                   resultsClosed, wg, workerVars, collectVars, firstFrame,
                   signalVars, playVars, stdout, hist>>

\* Mutant of NewJob: the Index field left out of the literal
NewJobNoIndex(index, canvas) == [Index |-> 0, Image |-> canvas, PoolKey |-> canvas]

\* Lines 163-165: copy the canvas into the pooled one, send the job, loop
NewJob(index, canvas) == [Index |-> index, Image |-> canvas, PoolKey |-> canvas]

Dispatch ==
    /\ ~exited
    /\ pc = "dispatch"
    /\ Len(jobs) < N
    /\ Pix' = [Pix EXCEPT ![frameCopy] = CopyPix(fullFrame)]
    /\ jobs' = Append(jobs, NewJob(i, frameCopy))
    /\ hist' = [hist EXCEPT !.sent[NewJob(i, frameCopy).Index] = @ + 1,
                            !.handed = Append(@, CopyPix(fullFrame))]
    /\ frameCopy' = 0
    /\ i' = i + 1
    /\ pc' = IF i + 1 < N THEN "dispose" ELSE "closeJobs"
    /\ UNCHANGED <<inputVars, composeVars, bufferPool, jobsClosed, results,
                   resultsClosed, wg, workerVars, collectVars, firstFrame,
                   signalVars, playVars, stdout>>

\* Line 166
CloseJobs ==
    /\ ~exited
    /\ pc = "closeJobs"
    /\ jobsClosed' = TRUE
    /\ pc' = "startCollector"
    /\ UNCHANGED <<inputVars, i, composeVars, frameCopy, bufferPool, Pix, jobs,
                   results, resultsClosed, wg, workerVars, collectVars, firstFrame,
                   signalVars, playVars, stdout, hist>>

\* Lines 169-174: make prerendered, start the collector goroutine
StartCollector ==
    /\ ~exited
    /\ pc = "startCollector"
    /\ prerendered' = [k \in Indexes |-> Nil]
    /\ cpc' = "recv"
    /\ pc' = "wait"
    /\ UNCHANGED <<inputVars, i, composeVars, frameCopy, bufferPool, Pix, jobs,
                   jobsClosed, results, resultsClosed, wg, workerVars, cres,
                   firstFrame, signalVars, playVars, stdout, hist>>

\* Mutant of WaitWorkers: main goes on without waiting for the workers
WaitWorkersEarly ==
    /\ ~exited
    /\ pc = "wait"
    /\ pc' = "closeResults"
    /\ UNCHANGED <<inputVars, i, composeVars, frameCopy, bufferPool, Pix, jobs,
                   jobsClosed, results, resultsClosed, wg, workerVars, collectVars,
                   firstFrame, signalVars, playVars, stdout, hist>>

\* Line 177: wg.Wait()
WaitWorkers ==
    /\ ~exited
    /\ pc = "wait"
    /\ wg = 0
    /\ pc' = "closeResults"
    /\ UNCHANGED <<inputVars, i, composeVars, frameCopy, bufferPool, Pix, jobs,
                   jobsClosed, results, resultsClosed, wg, workerVars, collectVars,
                   firstFrame, signalVars, playVars, stdout, hist>>

\* Line 178
CloseResults ==
    /\ ~exited
    /\ pc = "closeResults"
    /\ resultsClosed' = TRUE
    /\ pc' = "capture"
    /\ UNCHANGED <<inputVars, i, composeVars, frameCopy, bufferPool, Pix, jobs,
                   jobsClosed, results, wg, workerVars, collectVars, firstFrame,
                   signalVars, playVars, stdout, hist>>

\* ------------------------------------------------------- main: playback
\* prerendered[k] as main reads it.  Nothing orders the collector's store
\* (line 172) with main's loads (lines 181, 197): a load made while the
\* collector is storing the same element sees the old header, the new one,
\* or a mix of the two.
RaceRead(k) ==
    IF cpc = "write" /\ cres.Index = k
    THEN {prerendered[k], cres.Lines, Torn}
    ELSE {prerendered[k]}

\* Line 181
CaptureFirstFrame ==
    /\ ~exited
    /\ pc = "capture"
    /\ firstFrame' \in RaceRead(0)
    /\ pc' = "startHandler"
    /\ UNCHANGED <<inputVars, i, composeVars, frameCopy, bufferPool, Pix, jobs,
                   jobsClosed, results, resultsClosed, wg, workerVars, collectVars,
                   signalVars, playVars, stdout, hist>>

\* Lines 182-193: start the signal goroutine
StartHandler ==
    /\ ~exited
    /\ pc = "startHandler"
    /\ hpc' = "recv"
    /\ pc' = "play"
    /\ UNCHANGED <<inputVars, i, composeVars, frameCopy, bufferPool, Pix, jobs,
                   jobsClosed, results, resultsClosed, wg, workerVars, collectVars,
                   firstFrame, sigs, exited, playVars, stdout, hist>>

\* Lines 197-202: one frame into the buffered writer
FrameOutput(frameStrings) ==
    <<Home>> \o [k \in 1 .. Len(frameStrings) |-> WithNewline(frameStrings[k])]

PlayFrame ==
    /\ ~exited
    /\ pc = "play"
    /\ \E frameStrings \in RaceRead(playIdx) :
          writer' = writer \o FrameOutput(frameStrings)
    /\ pc' = "flush"
    /\ UNCHANGED <<inputVars, i, composeVars, frameCopy, bufferPool, Pix, jobs,
                   jobsClosed, results, resultsClosed, wg, workerVars, collectVars,
                   firstFrame, signalVars, playIdx, stdout, hist>>

\* Line 203
Flush ==
    /\ ~exited
    /\ pc = "flush"
    /\ stdout' = Chunk("main", writer)
    /\ writer' = <<>>
    /\ pc' = "sleep"
    /\ UNCHANGED <<inputVars, i, composeVars, frameCopy, bufferPool, Pix, jobs,
                   jobsClosed, results, resultsClosed, wg, workerVars, collectVars,
                   firstFrame, signalVars, playIdx, hist>>

\* Lines 204-205 and the enclosing for: sleep, then the next element, and
\* again from the first one after the last
NextIndex(k, n) == (k + 1) % n

Sleep ==
    /\ ~exited
    /\ pc = "sleep"
    /\ playIdx' = NextIndex(playIdx, N)
    /\ pc' = "play"
    /\ UNCHANGED <<inputVars, i, composeVars, frameCopy, bufferPool, Pix, jobs,
                   jobsClosed, results, resultsClosed, wg, workerVars, collectVars,
                   firstFrame, signalVars, writer, stdout, hist>>

\* ------------------------------------------------------------ the workers
\* Mutant of WorkerRecv: the canvas goes back to the pool as soon as the job
\* is received, before it is rendered
WorkerRecvRelease(w) ==
    /\ ~exited
    /\ wpc[w] = "recv"
    /\ Len(jobs) > 0
    /\ wjob' = [wjob EXCEPT ![w] = Head(jobs)]
    /\ jobs' = Tail(jobs)
    /\ bufferPool' = Append(bufferPool, Head(jobs).PoolKey)
    /\ wpc' = [wpc EXCEPT ![w] = "render"]
    /\ hist' = [hist EXCEPT !.taken[Head(jobs).Index] = @ + 1]
    /\ UNCHANGED <<inputVars, pc, i, composeVars, frameCopy, Pix, jobsClosed,
                   results, resultsClosed, wg, wlines, collectVars, firstFrame,
                   signalVars, playVars, stdout>>

\* Line 213: receive a job
WorkerRecv(w) ==
    /\ ~exited
    /\ wpc[w] = "recv"
    /\ Len(jobs) > 0
    /\ wjob' = [wjob EXCEPT ![w] = Head(jobs)]
    /\ jobs' = Tail(jobs)
    /\ wpc' = [wpc EXCEPT ![w] = "render"]
    /\ hist' = [hist EXCEPT !.taken[Head(jobs).Index] = @ + 1]
    /\ UNCHANGED <<inputVars, pc, i, composeVars, frameCopy, bufferPool, Pix,
                   jobsClosed, results, resultsClosed, wg, wlines, collectVars,
                   firstFrame, signalVars, playVars, stdout>>

\* Lines 212-213: jobs closed and drained, the loop ends and wg.Done runs
WorkerExit(w) ==
    /\ ~exited
    /\ wpc[w] = "recv"
    /\ Len(jobs) = 0
    /\ jobsClosed
    /\ wg' = wg - 1
    /\ wpc' = [wpc EXCEPT ![w] = "done"]
    /\ UNCHANGED <<inputVars, pc, i, composeVars, frameCopy, bufferPool, Pix, jobs,
                   jobsClosed, results, resultsClosed, wjob, wlines, collectVars,
                   firstFrame, signalVars, playVars, stdout, hist>>

\* Line 214
WorkerRender(w) ==
    /\ ~exited
    /\ wpc[w] = "render"
    /\ wlines' = [wlines EXCEPT ![w] = Render(Pix[wjob[w].Image], cfg)]
    /\ wpc' = [wpc EXCEPT ![w] = "publish"]
    /\ UNCHANGED <<inputVars, pc, i, composeVars, frameCopy, bufferPool, Pix, jobs,
                   jobsClosed, results, resultsClosed, wg, wjob, collectVars,
                   firstFrame, signalVars, playVars, stdout, hist>>

\* Line 215
NewResult(index, lines) == [Index |-> index, Lines |-> lines]

\* Mutant of WorkerPublish: the result is sent twice
WorkerPublishTwice(w) ==
    /\ ~exited
    /\ wpc[w] = "publish"
    /\ Len(results) < N
    /\ results' = Append(Append(results, NewResult(wjob[w].Index, wlines[w])),
                         NewResult(wjob[w].Index, wlines[w]))
    /\ wlines' = [wlines EXCEPT ![w] = Nil]
    /\ wpc' = [wpc EXCEPT ![w] = "release"]
    /\ hist' = [hist EXCEPT !.published[wjob[w].Index] = @ + 1]
    /\ UNCHANGED <<inputVars, pc, i, composeVars, frameCopy, bufferPool, Pix, jobs,
                   jobsClosed, resultsClosed, wg, wjob, collectVars, firstFrame,
                   signalVars, playVars, stdout>>

WorkerPublish(w) ==
    /\ ~exited
    /\ wpc[w] = "publish"
    /\ Len(results) < N
    /\ results' = Append(results, NewResult(wjob[w].Index, wlines[w]))
    /\ wlines' = [wlines EXCEPT ![w] = Nil]
    /\ wpc' = [wpc EXCEPT ![w] = "release"]
    /\ hist' = [hist EXCEPT !.published[wjob[w].Index] = @ + 1]
    /\ UNCHANGED <<inputVars, pc, i, composeVars, frameCopy, bufferPool, Pix, jobs,
                   jobsClosed, resultsClosed, wg, wjob, collectVars, firstFrame,
                   signalVars, playVars, stdout>>

\* Mutant of WorkerRelease: the canvas is not sent back to the pool
WorkerLeak(w) ==
    /\ ~exited
    /\ wpc[w] = "release"
    /\ wjob' = [wjob EXCEPT ![w] = NoJob]
    /\ wpc' = [wpc EXCEPT ![w] = "recv"]
    /\ UNCHANGED <<inputVars, pc, i, composeVars, frameCopy, bufferPool, Pix, jobs,
                   jobsClosed, results, resultsClosed, wg, wlines, collectVars,
                   firstFrame, signalVars, playVars, stdout, hist>>

\* Line 216
WorkerRelease(w) ==
    /\ ~exited
    /\ wpc[w] = "release"
    /\ Len(bufferPool) < PoolCap
    /\ bufferPool' = Append(bufferPool, wjob[w].PoolKey)
    /\ wjob' = [wjob EXCEPT ![w] = NoJob]
    /\ wpc' = [wpc EXCEPT ![w] = "recv"]
    /\ hist' = [hist EXCEPT !.released[wjob[w].Index] = @ + 1]
    /\ UNCHANGED <<inputVars, pc, i, composeVars, frameCopy, Pix, jobs, jobsClosed,
                   results, resultsClosed, wg, wlines, collectVars, firstFrame,
                   signalVars, playVars, stdout>>

\* ---------------------------------------------------------- the collector
\* Line 171: receive a result
CollectRecv ==
    /\ ~exited
    /\ cpc = "recv"
    /\ Len(results) > 0
    /\ cres' = Head(results)
    /\ results' = Tail(results)
    /\ cpc' = "write"
    /\ UNCHANGED <<inputVars, pc, i, composeVars, frameCopy, bufferPool, Pix, jobs,
                   jobsClosed, resultsClosed, wg, workerVars, prerendered,
                   firstFrame, signalVars, playVars, stdout, hist>>

\* Mutant of Store: results put in the array in arrival order
StoreByArrival(arr, result) ==
    [arr EXCEPT ![Cardinality({k \in DOMAIN arr : arr[k] # Nil})] = result.Lines]

\* Line 172
Store(arr, result) == [arr EXCEPT ![result.Index] = result.Lines]

CollectWrite ==
    /\ ~exited
    /\ cpc = "write"
    /\ prerendered' = Store(prerendered, cres)
    /\ cres' = NoResult
    /\ cpc' = "recv"
    /\ hist' = [hist EXCEPT !.written[cres.Index] = @ + 1,
                            !.reordered = @ \/ \E k \in Indexes :
                                k > cres.Index /\ hist.written[k] > 0]
    /\ UNCHANGED <<inputVars, pc, i, composeVars, frameCopy, bufferPool, Pix, jobs,
                   jobsClosed, results, resultsClosed, wg, workerVars, firstFrame,
                   signalVars, playVars, stdout>>

\* Line 171: results closed and drained, the goroutine ends
CollectExit ==
    /\ ~exited
    /\ cpc = "recv"
    /\ Len(results) = 0
    /\ resultsClosed
    /\ cpc' = "done"
    /\ UNCHANGED <<inputVars, pc, i, composeVars, frameCopy, bufferPool, Pix, jobs,
                   jobsClosed, results, resultsClosed, wg, workerVars, cres,
                   prerendered, firstFrame, signalVars, playVars, stdout, hist>>

\* ------------------------------------------------- signals and shutdown
\* signal.Notify (line 115): a SIGINT or SIGTERM is put in sigs unless the
\* channel's one slot is taken
Signal ==
    /\ ~exited
    /\ sigs = 0
    /\ sigs' = 1
    /\ UNCHANGED <<inputVars, pc, i, composeVars, frameCopy, bufferPool, Pix, jobs,
                   jobsClosed, results, resultsClosed, wg, workerVars, collectVars,
                   firstFrame, hpc, exited, playVars, stdout, hist>>

HandlerStep(from, to, out) ==
    /\ ~exited
    /\ hpc = from
    /\ hpc' = to
    /\ stdout' = out
    /\ UNCHANGED <<inputVars, pc, i, composeVars, frameCopy, bufferPool, Pix, jobs,
                   jobsClosed, results, resultsClosed, wg, workerVars, collectVars,
                   firstFrame, sigs, exited, playVars, hist>>

\* Line 183: <-sigs
HandlerRecv ==
    /\ ~exited
    /\ hpc = "recv"
    /\ sigs > 0
    /\ sigs' = sigs - 1
    /\ hpc' = "exitAlt"
    /\ UNCHANGED <<inputVars, pc, i, composeVars, frameCopy, bufferPool, Pix, jobs,
                   jobsClosed, results, resultsClosed, wg, workerVars, collectVars,
                   firstFrame, exited, playVars, stdout, hist>>

\* Line 184
HandlerExitAlt == HandlerStep("exitAlt", "print", Chunk("handler", <<ExitAltScreen>>))

\* Lines 185-187: fmt.Println of every line of firstFrame, taken as one
\* write to the terminal
HandlerPrint ==
    HandlerStep("print", "showCursor",
                Chunk("handler",
                      [k \in 1 .. Len(firstFrame) |-> WithNewline(firstFrame[k])]))

\* Line 188
HandlerShowCursor == HandlerStep("showCursor", "reset", Chunk("handler", <<ShowCursor>>))

\* Line 189
HandlerReset == HandlerStep("reset", "exit", Chunk("handler", <<ResetColour>>))

\* Line 190: os.Exit(0) ends every goroutine
HandlerExit ==
    /\ ~exited
    /\ hpc = "exit"
    /\ hpc' = "done"
    /\ exited' = TRUE
    /\ UNCHANGED <<inputVars, pc, i, composeVars, frameCopy, bufferPool, Pix, jobs,
                   jobsClosed, results, resultsClosed, wg, workerVars, collectVars,
                   firstFrame, sigs, playVars, stdout, hist>>

\* ---------------------------------------------------- the specifications
Compositor == Dispose \/ Snapshot \/ Draw \/ Acquire \/ Dispatch \/ CloseJobs

Barrier == StartCollector \/ WaitWorkers \/ CloseResults

Playback == CaptureFirstFrame \/ StartHandler \/ PlayFrame \/ Flush \/ Sleep

Main == Compositor \/ Barrier \/ Playback

Worker(w) ==
    /\ w \in Workers
    /\ (WorkerRecv(w) \/ WorkerExit(w) \/ WorkerRender(w) \/ WorkerPublish(w)
        \/ WorkerRelease(w))

Collector == CollectRecv \/ CollectWrite \/ CollectExit

Handler ==
    \/ HandlerRecv \/ HandlerExitAlt \/ HandlerPrint \/ HandlerShowCursor
    \/ HandlerReset \/ HandlerExit

Program == Main \/ (\E w \in 1 .. MaxWorkers : Worker(w)) \/ Collector \/ Handler

Next == Program \/ Signal

Spec == Init /\ [][Next]_vars

\* The prerender phase alone (lines 117-178): playback, the signal goroutine
\* and signals leave its variables unchanged
Prerender == Compositor \/ Barrier \/ (\E w \in 1 .. MaxWorkers : Worker(w)) \/ Collector

PrerenderSpec == Init /\ [][Prerender]_vars

\* The prerender phase over the target sizes, overlays and offsets
RenderSpec == InitRender /\ [][Prerender]_vars

\* The prerender phase with one worker, over every choice of disposal bytes
InitCompose ==
    \E n \in 1 .. MaxFrames, c \in SampleConfigs :
        \E anim \in Animations(n) : InitWith(1, anim, c)

ComposeSpec == InitCompose /\ [][Prerender]_vars

\* Every goroutine that can run is eventually run by the Go scheduler
Fairness ==
    /\ WF_vars(Main)
    /\ \A w \in 1 .. MaxWorkers : WF_vars(Worker(w))
    /\ WF_vars(Collector)
    /\ WF_vars(Handler)

FairSpec == Spec /\ Fairness

PrerenderFairness ==
    /\ WF_vars(Compositor \/ Barrier)
    /\ \A w \in 1 .. MaxWorkers : WF_vars(Worker(w))
    /\ WF_vars(Collector)

PrerenderFair == PrerenderSpec /\ PrerenderFairness

\* ------------------------------------------ the single-threaded reference
\* The canvas and the snapshot after frame k (0-based) is drawn, composing
\* frames 0..k in order as lines 141-160 do
RECURSIVE RefState(_)
RefState(k) ==
    IF k = 0
    THEN LET c0 == DrawUniformSrc(NewRGBA, CanvasBounds, Transparent)
         IN  [canvas |-> DrawFrameOver(c0, frames[1]),
              snap |-> TakeSnapshot(c0, NewRGBA, frames[1].disposal)]
    ELSE LET prev == RefState(k - 1)
             c1 == ApplyDisposal(prev.canvas, prev.snap, frames[k].disposal,
                                 frames[k].bounds)
         IN  [canvas |-> DrawFrameOver(c1, frames[k + 1]),
              snap |-> TakeSnapshot(c1, prev.snap, frames[k + 1].disposal)]

RefCanvas(k) == RefState(k).canvas
RefLines(k) == Render(RefCanvas(k), cfg)

\* ---------------------------------------------------------------- claims
\* Jobs that were sent and whose canvas is not yet back in the pool
HeldJobs == {wjob[w] : w \in {v \in Workers : wjob[v] # NoJob}}
QueuedJobs == {jobs[k] : k \in 1 .. Len(jobs)}
CheckedOut ==
    (IF frameCopy # 0 THEN 1 ELSE 0) + Len(jobs)
        + Cardinality({w \in Workers : wjob[w] # NoJob})

\* C1: the number of pooled canvases checked out (held by the compositor,
\* queued in jobs or held by a worker) never exceeds the pool capacity 2*W,
\* and the compositor's receive from bufferPool is enabled only when the
\* pool holds a canvas.
C1_PoolBound ==
    /\ CheckedOut <= PoolCap
    /\ (ENABLED Acquire) => Len(bufferPool) >= 1

\* C1 witness: the pool is exhausted and the compositor waits to acquire
C1_Witness ==
    /\ pc = "acquire"
    /\ Len(bufferPool) = 0
    /\ CheckedOut = PoolCap
    /\ ~ENABLED Acquire

PlaybackStarted == pc \in {"capture", "startHandler", "play", "flush", "sleep"}
Drained == Len(results) = 0 /\ cpc # "write"
Complete == \A k \in Indexes : prerendered[k] = RefLines(k)

\* C2: when the capture of the first frame and the playback loop begin,
\* every result has been drained by the collector and every index of
\* prerendered holds its rendered lines.
C2_PlaybackAfterComplete == PlaybackStarted => (Drained /\ Complete)

\* C3: once the collector has drained the results channel, prerendered has
\* exactly N populated entries and prerendered[k] is the rendering of the
\* canvas the single-threaded reference composes for frame k.
C3_OrderedResults ==
    cpc = "done" =>
        /\ DOMAIN prerendered = Indexes
        /\ \A k \in Indexes : prerendered[k] # Nil /\ prerendered[k] = RefLines(k)

\* C3 witness: the collector is done after storing a result later than the
\* result of a later frame
C3_Witness == cpc = "done" /\ N >= 2 /\ hist.reordered

InFlightIndexes ==
    {j.Index : j \in QueuedJobs \cup HeldJobs}
        \cup {results[k].Index : k \in 1 .. Len(results)}
        \cup (IF cres # NoResult THEN {cres.Index} ELSE {})

\* C4: for each frame index exactly one job is enqueued, it is dequeued
\* once, one result is published and prerendered[index] is written once;
\* no index outside [0, N) is ever carried by a job or a result.
C4_ExactlyOnce ==
    /\ InFlightIndexes \subseteq Indexes
    /\ \A k \in Indexes :
          /\ hist.sent[k] <= 1
          /\ hist.taken[k] <= hist.sent[k]
          /\ hist.published[k] <= hist.taken[k]
          /\ hist.written[k] <= hist.published[k]
          /\ k < i <=> hist.sent[k] = 1
          /\ cpc = "done" => hist.written[k] = 1

\* C4 witness: the collector is done and every index went through once
C4_Witness ==
    /\ cpc = "done"
    /\ N >= 2
    /\ \A k \in Indexes : hist.sent[k] = 1 /\ hist.taken[k] = 1
                            /\ hist.published[k] = 1 /\ hist.written[k] = 1

\* C5: under weak fairness of the compositor, the workers and the
\* collector the prerender phase ends: all N jobs are sent and jobs is
\* closed, every worker exits, wg.Wait returns and results is closed; and
\* until results is closed some goroutine can always take a step.
C5_NoDeadlock ==
    /\ <>(jobsClosed /\ \A k \in Indexes : hist.sent[k] = 1)
    /\ <>(\A w \in Workers : wpc[w] = "done")
    /\ <>(wg = 0 /\ pc \notin {"dispose", "snapshot", "draw", "acquire", "dispatch",
                               "closeJobs", "startCollector", "wait"})
    /\ <>resultsClosed
    /\ [](~resultsClosed => ENABLED Prerender)

\* C5 witness: results is closed after a run in which the frames outnumber
\* the pooled canvases
C5_Witness ==
    /\ resultsClosed /\ jobsClosed /\ wg = 0
    /\ \A w \in Workers : wpc[w] = "done"
    /\ N > PoolCap

Count(S) == Cardinality(S)
PlacesOf(c) ==
    Count({k \in 1 .. Len(bufferPool) : bufferPool[k] = c})
        + (IF frameCopy = c THEN 1 ELSE 0)
        + Count({k \in 1 .. Len(jobs) : jobs[k].Image = c})
        + Count({w \in Workers : wjob[w].Image = c})

OwnedOnce ==
    /\ \A c \in Canvases : PlacesOf(c) = 1
    /\ \A j \in QueuedJobs \cup HeldJobs : j.PoolKey = j.Image /\ j.Image \in Canvases

RendersOwnFrame ==
    /\ \A j \in QueuedJobs : Pix[j.Image] = RefCanvas(j.Index)
    /\ \A w \in Workers :
          /\ wpc[w] \in {"render", "publish"} => Pix[wjob[w].Image] = RefCanvas(wjob[w].Index)
          /\ wpc[w] = "publish" => wlines[w] = RefLines(wjob[w].Index)

ReleasedAfterPublish ==
    \A k \in Indexes : hist.released[k] <= hist.published[k] /\ hist.released[k] <= 1

WritesOwnCanvasOnly ==
    \A c \in Canvases :
        Pix'[c] # Pix[c] =>
            /\ frameCopy = c
            /\ \A j \in QueuedJobs \cup HeldJobs : j.Image # c

\* C8: each of the 2*W canvases is in exactly one place (pool, compositor,
\* one queued job, one worker); the compositor writes only into the canvas
\* it holds; a worker releases a canvas once, after publishing its result;
\* the pixels a worker renders for job k are the canvas composed for frame k.
C8_Ownership ==
    /\ [](OwnedOnce /\ RendersOwnFrame /\ ReleasedAfterPublish)
    /\ [][WritesOwnCanvasOnly]_vars

\* C8 witness: a worker renders the canvas of a frame after a later frame
\* was composited and dispatched
C8_Witness ==
    \E w \in Workers :
        /\ wpc[w] = "render"
        /\ i >= wjob[w].Index + 2
        /\ Pix[wjob[w].Image] # fullFrame

\* Frame j (0-based) of the animation and the rectangle it occupies
FrameNo(j) == frames[j + 1]
AllTransparent(canvas) == \A p \in Pixels : canvas[p] = Transparent

\* The canvas the claim expects before frame j > 0 is drawn, from the canvas
\* frame j-1 left, the tag and rectangle of frame j-1 and the snapshot
ExpectedReset(left, snap, j) ==
    [p \in Pixels |->
        IF FrameNo(j - 1).disposal = DisposalPrevious THEN snap[p]
        ELSE IF FrameNo(j - 1).disposal # DisposalNone
                /\ InRect(p, FrameNo(j - 1).bounds) THEN Transparent
        ELSE left[p]]

DisposalStep ==
    (pc = "dispose" /\ pc' = "snapshot") =>
        IF i = 0 THEN AllTransparent(fullFrame')
        ELSE /\ fullFrame = hist.handed[i]
             /\ fullFrame' = ExpectedReset(hist.handed[i], snapshot, i)

NoOtherReset ==
    /\ (pc = "snapshot" /\ pc' = "draw") => fullFrame' = fullFrame
    /\ (pc = "draw" /\ pc' = "acquire") =>
           \A p \in Pixels :
               fullFrame'[p] # fullFrame[p] =>
                   InRect(p, FrameNo(i).bounds) /\ fullFrame'[p] = FrameNo(i).at[p]
    /\ pc \in {"acquire", "dispatch"} => fullFrame' = fullFrame

\* C6: before frame i > 0 is drawn the canvas is reset by the disposal tag
\* of frame i-1 alone: DisposalPrevious copies the snapshot over the whole
\* canvas, any other tag but DisposalNone clears exactly the rectangle of
\* frame i-1, DisposalNone leaves the canvas as frame i-1 left it; nothing
\* else resets the canvas, and frame 0 is drawn on a transparent canvas.
C6_DisposalOfPrevious == [][DisposalStep /\ NoOtherReset]_vars

\* C6 witness: frame 1 is about to be drawn after the rectangle of frame 0,
\* tagged 0, was cleared out of a canvas that keeps its other pixels
C6_Witness ==
    /\ pc = "snapshot"
    /\ i = 1
    /\ FrameNo(0).disposal = 0
    /\ FrameNo(1).disposal = DisposalBackground
    /\ \E p \in Pixels : InRect(p, FrameNo(0).bounds) /\ hist.handed[1][p] # Transparent
    /\ \A p \in Pixels : InRect(p, FrameNo(0).bounds) => fullFrame[p] = Transparent

\* C7: if frame j is tagged DisposalPrevious and frame j+1 exists, the
\* canvas composed for frame j+1 equals, outside the bounds of frame j+1,
\* the canvas as it was just before frame j was drawn.
C7_RestorePrevious ==
    \A j \in Indexes :
        (FrameNo(j).disposal = DisposalPrevious /\ j + 2 <= Len(hist.handed)) =>
            \A p \in Pixels :
                ~InRect(p, FrameNo(j + 1).bounds) =>
                    hist.handed[j + 2][p] = hist.before[j + 1][p]

\* C7 witness: two consecutive frames tagged DisposalPrevious, the first of
\* which changed the canvas, followed by a composed third frame
C7_Witness ==
    /\ Len(hist.handed) >= 3
    /\ FrameNo(0).disposal = DisposalNone
    /\ FrameNo(1).disposal = DisposalPrevious
    /\ FrameNo(2).disposal = DisposalPrevious
    /\ hist.handed[2] # hist.before[2]
    /\ \E p \in Pixels : ~InRect(p, FrameNo(2).bounds) /\ hist.handed[2][p] # hist.handed[3][p]

\* The canvases of the jobs for frame k that are queued or held by a worker
JobCanvases(k) == {Pix[j.Image] : j \in {q \in QueuedJobs \cup HeldJobs : q.Index = k}}

TopLeft == Rect(0, 0, 2, 2)
Scenario ==
    /\ N >= 2
    /\ FrameNo(0) = Frame(FullRed, DisposalNone)
    /\ FrameNo(1) = Frame(TopLeftBlue, DisposalBackground)

DrawnBy(frame, p) == InRect(p, frame.bounds) /\ frame.at[p][4] # 0

\* C9: with frame 0 opaque red over the whole canvas (DisposalNone) and
\* frame 1 opaque blue over the top-left 2x2 (DisposalBackground), the
\* canvas of job 1 is blue in the top-left 2x2 and red elsewhere, and the
\* canvas of job 2 is, outside the pixels frame 2 draws, transparent in the
\* top-left 2x2 and red elsewhere.
C9_Scenario ==
    Scenario =>
        /\ \A c \in JobCanvases(1) :
              \A p \in Pixels : c[p] = IF InRect(p, TopLeft) THEN Blue ELSE Red
        /\ \A c \in JobCanvases(2) :
              \A p \in Pixels :
                  ~DrawnBy(FrameNo(2), p) =>
                      c[p] = IF InRect(p, TopLeft) THEN Transparent ELSE Red

\* C9 witness: the scenario with a third frame whose job is queued or held
C9_Witness ==
    /\ Scenario
    /\ N >= 3
    /\ JobCanvases(2) # {}
    /\ \E c \in JobCanvases(2) : c[<<0, 0>>] = Transparent /\ c[<<CanvasW - 1, 0>>] = Red

\* A frame write: the flush at line 203 puts on the terminal the cursor-home
\* sequence and then the lines the renderer produced for frame playIdx
FrameWrite ==
    (pc = "flush" /\ pc' = "sleep") =>
        /\ stdout'.by = "main"
        /\ stdout'.data = FrameOutput(RefLines(playIdx))
        /\ playIdx' = playIdx

CyclicOrder ==
    /\ (pc = "startHandler" /\ pc' = "play") => playIdx' = 0
    /\ (pc = "play" /\ pc' = "flush") => playIdx' = playIdx
    /\ (pc = "sleep" /\ pc' = "play") => playIdx' = (playIdx + 1) % N
    /\ pc = "play" => pc' \in {"play", "flush"}
    /\ pc = "flush" => pc' \in {"flush", "sleep"}
    /\ pc = "sleep" => pc' \in {"sleep", "play"}

SignalSeen == sigs > 0 \/ hpc \notin {"off", "recv"}

\* C10: playback writes the frames in the cyclic order 0, 1, ..., N-1, 0,
\* ...; each frame write is cursor-home, that frame's rendered lines in
\* order, a flush, then the delay; absent a signal every frame index is
\* written again and again.
C10_PlaybackOrder ==
    /\ [][FrameWrite /\ CyclicOrder]_vars
    /\ (<>SignalSeen) \/
           \A k \in 0 .. MaxFrames - 1 : []<>(k >= N \/ (pc = "sleep" /\ playIdx = k))

\* The part of C10 that does not depend on what the array holds when read
C10_OrderOnly ==
    /\ [][CyclicOrder]_vars
    /\ (<>SignalSeen) \/
           \A k \in 0 .. MaxFrames - 1 : []<>(k >= N \/ (pc = "sleep" /\ playIdx = k))

\* ------------------------------------------------------------- shutdown
\* The signal goroutine's steps, in the order of lines 183-190: each is
\* taken from the step before it, so none happens twice, and only os.Exit
\* ends the process
ShutdownOrder ==
    /\ hpc' # hpc =>
           <<hpc, hpc'>> \in {<<"off", "recv">>, <<"recv", "exitAlt">>,
                              <<"exitAlt", "print">>, <<"print", "showCursor">>,
                              <<"showCursor", "reset">>, <<"reset", "exit">>,
                              <<"exit", "done">>}
    /\ (hpc = "exitAlt" /\ hpc' = "print") =>
           stdout' = Chunk("handler", <<ExitAltScreen>>)
    /\ (hpc = "showCursor" /\ hpc' = "reset") =>
           stdout' = Chunk("handler", <<ShowCursor>>)
    /\ (hpc = "reset" /\ hpc' = "exit") =>
           stdout' = Chunk("handler", <<ResetColour>>)
    /\ (stdout' # stdout /\ stdout'.by = "handler") => hpc' # hpc
    /\ exited' # exited => (hpc = "exit" /\ hpc' = "done" /\ exited')

\* What the handler prints at lines 185-187 when it holds frame 0's lines
StaticFirstFrame ==
    Chunk("handler", [k \in 1 .. Len(RefLines(0)) |-> WithNewline(RefLines(0)[k])])

PrintsFirstFrame ==
    (hpc = "print" /\ hpc' = "showCursor") => stdout' = StaticFirstFrame

\* C11: every signal delivered after registration leads to process exit, and
\* the shutdown steps happen in this order, each exactly once: exit the
\* alternate screen, print the static first frame, show the cursor, reset
\* the colour attributes, exit.
C11_CleanShutdown ==
    /\ [][ShutdownOrder /\ PrintsFirstFrame]_vars
    /\ (sigs > 0) ~> exited

\* The part of C11 that does not depend on what firstFrame holds
C11_OrderOnly ==
    /\ [][ShutdownOrder]_vars
    /\ (sigs > 0) ~> exited

\* main is past line 181
Captured == pc \in {"startHandler", "play", "flush", "sleep"}

\* C12: in every execution the value captured in firstFrame, and so what the
\* handler prints on exit, is the lines the renderer produced for frame 0,
\* never an unpopulated entry.
C12_FirstFrameIsFrame0 ==
    /\ Captured => (firstFrame = RefLines(0) /\ firstFrame # Nil)
    /\ (hpc \in {"showCursor", "reset", "exit", "done"} /\ stdout.by = "handler"
        /\ stdout.data \notin {<<ShowCursor>>, <<ResetColour>>})
           => stdout = StaticFirstFrame

\* The handler has written the exit-alternate-screen sequence and os.Exit
\* has not run yet
ShuttingDown == hpc \in {"print", "showCursor", "reset", "exit"}

\* C15: once the handler has exited the alternate screen the playback loop
\* writes no further frame output before the process exits, so the static
\* first frame is the last frame content on the terminal.
C15_NoFrameAfterShutdownStarts ==
    [][ShuttingDown => ~(pc = "flush" /\ pc' = "sleep") /\
                       ~(stdout'.by = "main" /\ stdout' # stdout)]_vars

\* A signal is pending while main waits for a canvas (line 162) or a worker
\* waits for a job (line 213)
InterruptedWhileWaiting ==
    /\ ~exited
    /\ sigs > 0
    /\ \/ pc = "acquire" /\ Len(bufferPool) = 0
       \/ \E w \in Workers : wpc[w] = "recv" /\ Len(jobs) = 0 /\ ~jobsClosed

\* C16: a signal that arrives while the compositor is blocked on the pool or
\* workers wait on the job queue unblocks those waits and leads to shutdown
\* without all N frames having to be composited and rendered first: the
\* signal goroutine can take the pending signal in the very state where the
\* wait is blocked, and the process exits.
C16_CancelDuringPrerender ==
    /\ [](InterruptedWhileWaiting => ENABLED HandlerRecv)
    /\ InterruptedWhileWaiting ~> exited

\* ------------------------------------------------- workers and the barrier
\* C17: a worker blocks on nothing but the job queue: whenever a worker is at
\* its send to results the send is enabled (the queue of capacity N never
\* holds N results at that point, collector started or not), and whenever it
\* is at its send to bufferPool that send is enabled (the pool never holds
\* 2*W canvases at that point).
C17_WorkerNeverBlocks ==
    /\ Len(results) <= N
    /\ Len(bufferPool) <= PoolCap
    /\ \A w \in Workers :
          /\ wpc[w] = "publish" => (Len(results) < N /\ ENABLED WorkerPublish(w))
          /\ wpc[w] = "release" =>
                 (Len(bufferPool) < PoolCap /\ ENABLED WorkerRelease(w))

\* C17 witness: the collector is not started yet, N - 1 results wait in the
\* queue and a worker is about to send the last one
C17_Witness ==
    /\ N >= 2
    /\ cpc = "off"
    /\ Len(results) = N - 1
    /\ \E w \in Workers : wpc[w] = "publish" /\ ENABLED WorkerPublish(w)

\* How many times index k is in the results queue or in the collector's hands
Pending(k) ==
    Cardinality({j \in 1 .. Len(results) : results[j].Index = k})
        + (IF cres # NoResult /\ cres.Index = k THEN 1 ELSE 0)

\* C18: when wg.Wait returns every worker has exited, jobs is closed and
\* empty, exactly N results have been published, each either still in the
\* results queue or already collected, and all 2*W canvases are back in the
\* pool.
C18_StateAtBarrier ==
    pc = "closeResults" =>
        /\ \A w \in Workers : wpc[w] = "done" /\ wjob[w] = NoJob
        /\ jobsClosed /\ Len(jobs) = 0
        /\ \A k \in Indexes :
              /\ hist.published[k] = 1
              /\ Pending(k) + hist.written[k] = 1
        /\ Len(results) + (IF cres # NoResult THEN 1 ELSE 0)
               + Cardinality({k \in Indexes : hist.written[k] = 1}) = N
        /\ Len(bufferPool) = PoolCap
        /\ {bufferPool[j] : j \in 1 .. Len(bufferPool)} = Canvases
        /\ CheckedOut = 0

\* C18 witness: wg.Wait has returned with some results collected and others
\* still queued
C18_Witness ==
    /\ pc = "closeResults"
    /\ Len(results) > 0
    /\ \E k \in Indexes : hist.written[k] = 1

\* ------------------------------------------------------------- start-up
\* Nothing of the pipeline has happened: no terminal write, no signal
\* registration, no canvas in the pool, no worker, no result
NoSideEffect ==
    /\ boot.written = <<>>
    /\ stdout = Chunk("main", <<>>)
    /\ writer = <<>>
    /\ ~boot.notified
    /\ bufferPool = <<>> /\ Pix = <<>>
    /\ wg = 0 /\ wpc = <<>>
    /\ jobs = <<>> /\ results = <<>> /\ prerendered = <<>> /\ firstFrame = Nil

BadFile == ~env.file.opens \/ ~env.file.decodes

\* C20: if the source file cannot be opened or does not decode, the process
\* aborts without having entered the alternate screen, hidden the cursor,
\* registered the signals, filled the pool or started a worker, and no
\* partial result exists.
C20_AbortBeforeSideEffects ==
    /\ (env.args >= 1 /\ BadFile) =>
           (pc \in {"args", "open", "decode", "panicked"} /\ NoSideEffect)
    /\ pc = "panicked" => (BadFile /\ boot.panic \in {"open", "decode"} /\ NoSideEffect)

\* C20 witness: a file that opens and is not a GIF made main panic
C20_Witness ==
    pc = "panicked" /\ env.file.opens /\ ~env.file.decodes /\ boot.panic = "decode"

\* main is past line 88
InfoRead == pc \notin {"args", "open", "decode", "info", "returned", "panicked"}

\* C13: whenever the overlay command cannot be found or exits non-zero, on
\* every launcher path (script, unbuffer, direct), getCommandOutputLines
\* returns the empty list; the failing command never aborts the program and
\* never contributes an overlay line.
C13_OverlayDegradation ==
    /\ (Fails(env.does) /\ InfoRead) => cfg.sysInfo = <<>>
    /\ pc = "panicked" => BadFile

\* The part of C13 that is true of the code: with script on the PATH a
\* command that cannot be found gives no overlay line, and no failure of
\* the command makes main panic
C13_ScriptMissingCommand ==
    /\ (env.script /\ ~env.does.found /\ InfoRead) => cfg.sysInfo = <<>>
    /\ pc = "panicked" => BadFile

\* ----------------------------------------------------------- the renderer
\* The values renderFrame has returned: in a worker's hands, in results, in
\* the collector's hands or stored
Returned ==
    {wlines[w] : w \in {v \in Workers : wpc[v] = "publish"}}
        \cup {results[k].Lines : k \in 1 .. Len(results)}
        \cup (IF cres # NoResult THEN {cres.Lines} ELSE {})
        \cup {prerendered[k] : k \in {j \in Indexes : hist.written[j] = 1}}

Max(a, b) == IF a > b THEN a ELSE b

Glyphs ==
    {" ", ".", "dotted-circle", "*", "black-circle", "circled-white-bullet",
     "circled-bullet", "large-black-circle"}

\* A cell the glyph mapper wrote for a sampled pixel
IsGlyph(cell, c) ==
    \/ cell = ClearCell
    \/ c.Color /\ cell.esc = "fg-reset" /\ cell.glyph \in Glyphs
    \/ ~c.Color /\ cell.esc = "" /\ cell.glyph \in Glyphs

Blanks(n) == [x \in 1 .. n |-> Text(" ")]

\* Row y of lines: its first width cells and what follows them
ImagePart(lines, y, c) == SubSeq(lines[y + 1], 1, c.Width)
OverlayPart(lines, y, c) == SubSeq(lines[y + 1], c.Width + 1, Len(lines[y + 1]))

Layout(lines, c) ==
    /\ Len(lines) = Max(c.Height, Len(c.sysInfo) + c.offset)
    /\ \A y \in 0 .. Len(lines) - 1 :
          /\ Len(lines[y + 1]) >= c.Width
          /\ y < c.Height => \A x \in 1 .. c.Width : IsGlyph(lines[y + 1][x], c)
          /\ y >= c.Height => ImagePart(lines, y, c) = Blanks(c.Width)
          /\ OverlayPart(lines, y, c) =
                 IF 0 <= y - c.offset /\ y - c.offset < Len(c.sysInfo)
                 THEN <<Separator, Text(c.sysInfo[y - c.offset + 1])>>
                 ELSE <<>>
    /\ \A k \in 1 .. Len(c.sysInfo) :
          {y \in 0 .. Len(lines) - 1 :
              OverlayPart(lines, y, c) = <<Separator, Text(c.sysInfo[k])>>}
              = {c.offset + k - 1}

\* C14: for every target height h >= 0, overlay of L lines and offset
\* o >= 0, renderFrame returns exactly max(h, L + o) lines; row y carries
\* the image glyphs when y < h and width blanks otherwise; row y ends with
\* the separator and overlay line y - o if and only if 0 <= y - o < L, so
\* every overlay line appears once, in order, from row o on.
C14_RenderLayout == \A lines \in Returned : Layout(lines, cfg)

\* C14 witness: a frame was rendered whose overlay starts below row 0 and
\* ends below the image
C14_Witness ==
    /\ cfg.Width >= 1 /\ cfg.Height >= 1 /\ cfg.offset >= 1
    /\ Len(cfg.sysInfo) + cfg.offset > cfg.Height
    /\ \E lines \in Returned : Len(lines) = Len(cfg.sysInfo) + cfg.offset

\* A cell has been sampled
Sampling == probe # NoProbe /\ probe.done

InsideCanvas ==
    /\ 0 <= probe.px /\ probe.px < probe.W
    /\ 0 <= probe.py /\ probe.py < probe.H
    /\ 0 <= probe.offsetPix
    /\ probe.offsetPix + 3 < 4 * probe.W * probe.H

\* C19 as written: the sampled coordinate is (floor(x*W/w), floor(y*H/h)),
\* it lies inside the canvas, so the pixel's four bytes are inside the
\* buffer, and with h = 0 no pixel is sampled.
C19_ExactFloor ==
    /\ Sampling =>
          /\ probe.px = (probe.x * probe.W) \div probe.w
          /\ probe.py = (probe.y * probe.H) \div probe.h
          /\ InsideCanvas
    /\ (probe # NoProbe /\ probe.h = 0) => ~probe.done

\* C19 amended: the sampled coordinate is the float64 product of the index
\* and the float64 ratio, truncated; that is floor(x*W/w) or, when the
\* rounded product falls just below the integer x*W/w, one less; it lies
\* inside the canvas, so the pixel's four bytes are inside the buffer, and
\* with h = 0 no pixel is sampled.
C19_SamplingInsideCanvas ==
    /\ Sampling =>
          /\ probe.px \in {(probe.x * probe.W) \div probe.w,
                           (probe.x * probe.W) \div probe.w - 1}
          /\ probe.py \in {(probe.y * probe.H) \div probe.h,
                           (probe.y * probe.H) \div probe.h - 1}
          /\ probe.px # (probe.x * probe.W) \div probe.w
                 => (probe.x * probe.W) % probe.w = 0
          /\ probe.py # (probe.y * probe.H) \div probe.h
                 => (probe.y * probe.H) % probe.h = 0
          /\ InsideCanvas
    /\ (probe # NoProbe /\ probe.h = 0) => ~probe.done

\* C19 witness: a cell whose float64 product fell below the exact integer
\* was sampled, inside the canvas
C19_Witness ==
    /\ Sampling
    /\ probe.px = (probe.x * probe.W) \div probe.w - 1
    /\ InsideCanvas

====
